---- MODULE Spec2Model ----
(***************************************************************************)
(* Model of bard/play.py: the document model (Play, Act, Scene, Speech,   *)
(* Direction), its append operations, the parse_play loop and the         *)
(* speaker_counts queries.                                                *)
(*                                                                         *)
(* Python values are represented as follows.                               *)
(*   str                 a TLA+ string                                     *)
(*   None / a value v    <<>> / <<v>>  (Optional)                          *)
(*   Direction object    [type |-> "direction", direction, id]; id is the  *)
(*                       object's identity (Direction defines no __eq__)   *)
(*   Speech object       [type |-> "speech", speaker, lines, act_no,       *)
(*                        scene_no, line_no]                               *)
(*   a plain str line    [type |-> "str", value] inside Speech.lines       *)
(*   dict                a function from its keys to its values            *)
(*   a call's outcome    [raised |-> "none" or the exception class,        *)
(*                        obj |-> the receiver after the call]             *)
(***************************************************************************)
EXTENDS Integers, Sequences, FiniteSets, TLC

VARIABLES
    acts,          \* Play.acts
    heap,          \* number of Direction objects allocated so far
    pc,            \* "idle", "parsing" (inside the loop of parse_play), "aborted"
    new_speaker,   \* the local new_speaker of parse_play
    exc,           \* the exception that aborted the program, or "none"
    last,          \* the operation performed by the last step
    events,        \* the list event_stream returned, when the run fixes it in advance
    pos,           \* number of elements of events the loop has consumed
    speech_a,      \* left operand of a Speech comparison
    speech_b,      \* right operand of a Speech comparison
    eq_result      \* <<>> before the comparison, <<b>> after it

vars == <<acts, heap, pc, new_speaker, exc, last, events, pos,
          speech_a, speech_b, eq_result>>

(***************************************************************************)
(* Bounds of the model.                                                    *)
(***************************************************************************)
\* Successful append operations on one Play.
MaxAppends == 5

\* Length of a Speech's line list in the comparison inputs.
MaxCmpLines == 2

\* Length of an event stream fixed in advance.
MaxStream == 5

\* Largest act, scene and line number of a Speech in the ordering inputs.
MaxCmpNo == 2

None == <<>>
Some(v) == <<v>>

LastOf(seq) == seq[Len(seq)]

(***************************************************************************)
(* Strings.                                                                *)
(***************************************************************************)
CharAt(s, i) == SubSeq(s, i, i)

\* The characters str.strip() removes, among those a string of the module
\* (read as UTF-8) can hold: code points 9 to 13, 28 to 32, 133, 160 and
\* 5760.  The others it removes (8192 to 8202, 8232, 8233, 8239, 8287 and
\* 12288) cannot be written in a string.
Whitespace ==
    {"\t", "\n", "", "\f", "\r", "", "", "", "", " ", "", " ",
     " "}

\* The decimal digits (Unicode category Nd, which \d matches and int()
\* converts) that a string of the module can hold: for each script its ten
\* digits from zero to nine, the scripts in code order.
DigitBlocks ==
    << "0123456789",
       "۰۱۲۳۴۵۶۷۸۹",
       "߀߁߂߃߄߅߆߇߈߉",
       "০১২৩৪৫৬৭৮৯",
       "૦૧૨૩૪૫૬૭૮૯",
       "௦௧௨௩௪௫௬௭௮௯",
       "೦೧೨೩೪೫೬೭೮೯",
       "෦෧෨෩෪෫෬෭෮෯",
       "໐໑໒໓໔໕໖໗໘໙",
       "႐႑႒႓႔႕႖႗႘႙",
       "០១២៣៤៥៦៧៨៩",
       "᧐᧑᧒᧓᧔᧕᧖᧗᧘᧙",
       "᪀᪁᪂᪃᪄᪅᪆᪇᪈᪉",
       "᪐᪑᪒᪓᪔᪕᪖᪗᪘᪙",
       "᮰᮱᮲᮳᮴᮵᮶᮷᮸᮹",
       "꣐꣑꣒꣓꣔꣕꣖꣗꣘꣙",
       "꧐꧑꧒꧓꧔꧕꧖꧗꧘꧙",
       "꧰꧱꧲꧳꧴꧵꧶꧷꧸꧹",
       "꯰꯱꯲꯳꯴꯵꯶꯷꯸꯹" >>

\* the code point of the zero of each block of DigitBlocks
DigitZeroCodes ==
    << 48, 1776, 1984, 2534, 2790, 3046, 3302, 3558, 3792, 4240, 6112,
       6608, 6784, 6800, 7088, 43216, 43472, 43504, 44016 >>

Digits ==
    UNION {{SubSeq(DigitBlocks[b], i, i) : i \in 1..10} : b \in 1..Len(DigitBlocks)}

\* the block of DigitBlocks that holds digit c
DigitBlockOf(c) ==
    CHOOSE b \in 1..Len(DigitBlocks) : \E i \in 1..10 : SubSeq(DigitBlocks[b], i, i) = c

StartsWith(s, prefix) ==
    /\ Len(s) >= Len(prefix)
    /\ SubSeq(s, 1, Len(prefix)) = prefix

RECURSIVE LStrip(_)
LStrip(s) ==
    IF Len(s) > 0 /\ CharAt(s, 1) \in Whitespace
    THEN LStrip(SubSeq(s, 2, Len(s)))
    ELSE s

RECURSIVE RStrip(_)
RStrip(s) ==
    IF Len(s) > 0 /\ CharAt(s, Len(s)) \in Whitespace
    THEN RStrip(SubSeq(s, 1, Len(s) - 1))
    ELSE s

\* str.strip()
Strip(s) == RStrip(LStrip(s))

\* Number of consecutive characters of s, from position i on, that are in set.
RECURSIVE Run(_, _, _)
Run(s, i, set) ==
    IF i <= Len(s) /\ CharAt(s, i) \in set
    THEN 1 + Run(s, i + 1, set)
    ELSE 0

\* the value of a decimal digit: its place in its block
DigitValue(c) ==
    (CHOOSE i \in 1..10 : SubSeq(DigitBlocks[DigitBlockOf(c)], i, i) = c) - 1

\* int(s) for a non-empty string of decimal digits
RECURSIVE ParseInt(_)
ParseInt(s) ==
    IF Len(s) = 0 THEN 0
    ELSE 10 * ParseInt(SubSeq(s, 1, Len(s) - 1)) + DigitValue(CharAt(s, Len(s)))

\* The printable ASCII characters in code order: 32 (space) to 95, and 97
\* to 126 (a string of the module cannot hold character 96).
AsciiLow ==
    " !\"#$%&'()*+,-./0123456789:;<=>?@ABCDEFGHIJKLMNOPQRSTUVWXYZ[\\]^_"

AsciiHigh == "abcdefghijklmnopqrstuvwxyz{|}~"

IndexIn(s, c) == CHOOSE i \in 1..Len(s) : CharAt(s, i) = c

\* ord(c)
Ord(c) ==
    CASE c = "\t" -> 9
      [] c = "\n" -> 10
      [] c = "" -> 11
      [] c = "\f" -> 12
      [] c = "\r" -> 13
      [] c = "" -> 28
      [] c = "" -> 29
      [] c = "" -> 30
      [] c = "" -> 31
      [] c = "" -> 133
      [] c = " " -> 160
      [] c = " " -> 5760
      [] c \in Digits -> DigitZeroCodes[DigitBlockOf(c)] + DigitValue(c)
      [] \E i \in 1..Len(AsciiLow) : CharAt(AsciiLow, i) = c -> 31 + IndexIn(AsciiLow, c)
      [] OTHER -> 96 + IndexIn(AsciiHigh, c)

\* s < t for str: by code point, a proper prefix first
RECURSIVE StrLess(_, _)
StrLess(s, t) ==
    IF Len(t) = 0 THEN FALSE
    ELSE IF Len(s) = 0 THEN TRUE
    ELSE IF CharAt(s, 1) # CharAt(t, 1) THEN Ord(CharAt(s, 1)) < Ord(CharAt(t, 1))
    ELSE StrLess(SubSeq(s, 2, Len(s)), SubSeq(t, 2, Len(t)))

(***************************************************************************)
(* The two regular expressions, matched with re.match (anchored at the     *)
(* start of the string, not at its end).                                   *)
(***************************************************************************)
\* scene_title_regex = "SCENE ([IVX]+)\.(.*)": None, or Some(<<roman, rest>>).
\* "." does not match a newline, so the second group ends before the first one.
scene_title_regex_match(title) ==
    IF ~StartsWith(title, "SCENE ") THEN None
    ELSE LET n == Run(title, 7, {"I", "V", "X"})
             dot == 7 + n
         IN  IF n = 0 \/ dot > Len(title) \/ CharAt(title, dot) # "."
             THEN None
             ELSE LET m == Run(title, dot + 1, {CharAt(title, k) : k \in 1..Len(title)} \ {"\n"})
                  IN  Some(<<SubSeq(title, 7, dot - 1), SubSeq(title, dot + 1, dot + m)>>)

\* speech_pattern = "(\d+)\.(\d+)\.(\d+)": None, or Some(<<g1, g2, g3>>).
speech_pattern_match(tag_name) ==
    LET n1 == Run(tag_name, 1, Digits)
        d1 == 1 + n1
        n2 == Run(tag_name, d1 + 1, Digits)
        d2 == d1 + 1 + n2
        n3 == Run(tag_name, d2 + 1, Digits)
    IN  IF /\ n1 > 0
           /\ d1 <= Len(tag_name) /\ CharAt(tag_name, d1) = "."
           /\ n2 > 0
           /\ d2 <= Len(tag_name) /\ CharAt(tag_name, d2) = "."
           /\ n3 > 0
        THEN Some(<<SubSeq(tag_name, 1, n1),
                    SubSeq(tag_name, d1 + 1, d1 + n2),
                    SubSeq(tag_name, d2 + 1, d2 + n3)>>)
        ELSE None

(***************************************************************************)
(* Constructors.                                                           *)
(***************************************************************************)
Direction(direction, id) ==
    [type |-> "direction", direction |-> direction, id |-> id]

\* a plain str element of Speech.lines
Line(text) == [type |-> "str", value |-> text]

Speech(speaker, lines, act_no, scene_no, line_no) ==
    [type |-> "speech", speaker |-> speaker, lines |-> lines,
     act_no |-> act_no, scene_no |-> scene_no, line_no |-> line_no]

\* Scene.__init__
Scene(title, act_no, scene_no) ==
    LET m == scene_title_regex_match(title)
    IN  [events |-> <<>>,
         title |-> IF m # None THEN m[1][2] ELSE title,
         act_no |-> act_no,
         scene_no |-> scene_no]

\* Act.__init__
Act(act_no) == [scenes |-> <<>>, act_no |-> act_no]

\* x == y for two elements of a lines list: str compares by value; Direction
\* defines no __eq__, so two Directions are equal when they are one object
element_eq(x, y) ==
    IF x.type = "str" /\ y.type = "str" THEN x.value = y.value
    ELSE IF x.type = "direction" /\ y.type = "direction" THEN x.id = y.id
    ELSE FALSE

\* list.__eq__
list_eq(xs, ys) ==
    /\ Len(xs) = Len(ys)
    /\ \A i \in 1..Len(xs) : element_eq(xs[i], ys[i])

\* Speech.__eq__(self, other)
Speech_eq(self, other) ==
    IF other.type # "speech" THEN FALSE
    ELSE /\ self.speaker = other.speaker
         /\ list_eq(self.lines, other.lines)
         /\ self.act_no = other.act_no
         /\ self.scene_no = other.scene_no
         /\ self.line_no = other.line_no

Returned(obj) == [raised |-> "none", obj |-> obj]
Raised(class, obj) == [raised |-> class, obj |-> obj]

(***************************************************************************)
(* Scene operations.                                                       *)
(***************************************************************************)
\* Scene.add_line without its guard: an empty scene gets an "Unknown" Speech.
Scene_add_line_unguarded(scene, line, line_no) ==
    IF Len(scene.events) > 0 /\ scene.events[Len(scene.events)].type = "speech"
    THEN Returned([scene EXCEPT !.events[Len(scene.events)].lines = Append(@, Line(line))])
    ELSE Returned([scene EXCEPT !.events =
             Append(@, Speech("Unknown", <<Line(line)>>,
                              scene.act_no, scene.scene_no, line_no))])

Scene_add_line(scene, line, line_no) ==
    IF Len(scene.events) = 0 THEN Raised("ValueError", scene)
    ELSE LET n == Len(scene.events)
             last_event == scene.events[n]
         IN  IF last_event.type # "speech"
             THEN Returned([scene EXCEPT !.events =
                      Append(@, Speech("Unknown", <<Line(line)>>,
                                       scene.act_no, scene.scene_no, line_no))])
             ELSE Returned([scene EXCEPT !.events[n].lines = Append(@, Line(line))])

\* Scene.add_direction that always appends a top-level Direction.
Scene_add_direction_toplevel(scene, direction, id) ==
    Returned([scene EXCEPT !.events = Append(@, Direction(direction, id))])

Scene_add_direction(scene, direction, id) ==
    IF Len(scene.events) = 0
    THEN Returned([scene EXCEPT !.events = Append(@, Direction(direction, id))])
    ELSE IF scene.events[Len(scene.events)].type = "direction"
    THEN Returned([scene EXCEPT !.events = Append(@, Direction(direction, id))])
    ELSE Returned([scene EXCEPT !.events[Len(scene.events)].lines =
                       Append(@, Direction(direction, id))])

\* Scene.add_speech that builds the Speech with an empty lines list
Scene_add_speech_without_line(scene, speaker, line_no, first_line) ==
    LET new_speech == Speech(speaker, <<>>, scene.act_no, scene.scene_no, line_no)
    IN  Returned([scene EXCEPT !.events = Append(@, new_speech)])

Scene_add_speech(scene, speaker, line_no, first_line) ==
    LET new_speech == Speech(speaker, <<Line(first_line)>>,
                             scene.act_no, scene.scene_no, line_no)
    IN  Returned([scene EXCEPT !.events = Append(@, new_speech)])

(***************************************************************************)
(* Act operations: each delegates to self.scenes[-1], which raises         *)
(* IndexError on an empty list.                                            *)
(***************************************************************************)
\* the outcome r of a call on act.scenes[-1], seen from the act
InLastScene(act, r) ==
    [raised |-> r.raised, obj |-> [act EXCEPT !.scenes[Len(act.scenes)] = r.obj]]

\* Act.add_scene that forgets the + 1.
Act_add_scene_same_no(act, title) ==
    LET scene_no == IF Len(act.scenes) > 0
                    THEN act.scenes[Len(act.scenes)].scene_no
                    ELSE 1
        scene == Scene(title, act.act_no, scene_no)
    IN  Returned([act EXCEPT !.scenes = Append(@, scene)])

Act_add_scene(act, title) ==
    LET scene_no == IF Len(act.scenes) > 0
                    THEN act.scenes[Len(act.scenes)].scene_no + 1
                    ELSE 1
        scene == Scene(title, act.act_no, scene_no)
    IN  Returned([act EXCEPT !.scenes = Append(@, scene)])


\* Act.add_line that does not pass line_no on (Scene.add_line defaults it to 1).
Act_add_line_default_no(act, line, line_no) ==
    IF Len(act.scenes) = 0 THEN Raised("IndexError", act)
    ELSE InLastScene(act, Scene_add_line(act.scenes[Len(act.scenes)], line, 1))

Act_add_line(act, line, line_no) ==
    IF Len(act.scenes) = 0 THEN Raised("IndexError", act)
    ELSE InLastScene(act, Scene_add_line(act.scenes[Len(act.scenes)], line, line_no))

\* Act.add_direction that does nothing when the act has no scene
Act_add_direction_ignored_without_scene(act, direction, id) ==
    IF Len(act.scenes) = 0 THEN Returned(act)
    ELSE InLastScene(act, Scene_add_direction(act.scenes[Len(act.scenes)], direction, id))

Act_add_direction(act, direction, id) ==
    IF Len(act.scenes) = 0 THEN Raised("IndexError", act)
    ELSE InLastScene(act, Scene_add_direction(act.scenes[Len(act.scenes)], direction, id))

Act_add_speech(act, speaker, line_no, first_line) ==
    IF Len(act.scenes) = 0 THEN Raised("IndexError", act)
    ELSE InLastScene(act, Scene_add_speech(act.scenes[Len(act.scenes)],
                                           speaker, line_no, first_line))

(***************************************************************************)
(* Play operations, on the list Play.acts: each but add_act delegates to   *)
(* self.acts[-1].                                                          *)
(***************************************************************************)
\* Play.add_act that builds Act() with its default act_no.
Play_add_act_default_no(as) == Returned(Append(as, Act(1)))

Play_add_act(as) ==
    LET act_no == IF Len(as) > 0 THEN as[Len(as)].act_no + 1 ELSE 1
        act == Act(act_no)
    IN  Returned(Append(as, act))

\* the outcome r of a call on acts[-1], seen from the play
InLastAct(as, r) ==
    [raised |-> r.raised, obj |-> [as EXCEPT ![Len(as)] = r.obj]]

Play_add_direction(as, direction, id) ==
    IF Len(as) = 0 THEN Raised("IndexError", as)
    ELSE InLastAct(as, Act_add_direction(as[Len(as)], direction, id))

\* Play.add_scene that delegates to self.acts[0]
Play_add_scene_first_act(as, title) ==
    IF Len(as) = 0 THEN Raised("IndexError", as)
    ELSE LET r == Act_add_scene(as[1], title)
         IN  [raised |-> r.raised, obj |-> [as EXCEPT ![1] = r.obj]]

Play_add_scene(as, title) ==
    IF Len(as) = 0 THEN Raised("IndexError", as)
    ELSE InLastAct(as, Act_add_scene(as[Len(as)], title))

Play_add_line(as, line, line_no) ==
    IF Len(as) = 0 THEN Raised("IndexError", as)
    ELSE InLastAct(as, Act_add_line(as[Len(as)], line, line_no))

Play_add_speech(as, speaker, line_no, first_line) ==
    IF Len(as) = 0 THEN Raised("IndexError", as)
    ELSE InLastAct(as, Act_add_speech(as[Len(as)], speaker, line_no, first_line))

(***************************************************************************)
(* Speaker counts.  A dict is a function; a query's outcome is            *)
(* [raised, obj] with obj the dict returned.                               *)
(***************************************************************************)
EmptyDict == [k \in {} |-> 0]

\* d.get(k, 0)
GetOrZero(d, k) == IF k \in DOMAIN d THEN d[k] ELSE 0

add_dicts(d1, d2) ==
    LET keys == (DOMAIN d1) \cup (DOMAIN d2)
    IN  [k \in keys |-> GetOrZero(d1, k) + GetOrZero(d2, k)]

\* reduce(add_dicts, dicts), which has no initial value
RECURSIVE FoldAddDicts(_, _)
FoldAddDicts(acc, dicts) ==
    IF Len(dicts) = 0 THEN acc
    ELSE FoldAddDicts(add_dicts(acc, Head(dicts)), Tail(dicts))

reduce_add_dicts(dicts) ==
    IF Len(dicts) = 0 THEN Raised("TypeError", EmptyDict)
    ELSE Returned(FoldAddDicts(Head(dicts), Tail(dicts)))

\* list.sort() of a list of str
RECURSIVE Insert(_, _)
Insert(x, sorted) ==
    IF Len(sorted) = 0 THEN <<x>>
    ELSE IF StrLess(x, Head(sorted)) THEN <<x>> \o sorted
    ELSE <<Head(sorted)>> \o Insert(x, Tail(sorted))

RECURSIVE Sort(_)
Sort(xs) == IF Len(xs) = 0 THEN <<>> ELSE Insert(LastOf(xs), Sort(SubSeq(xs, 1, Len(xs) - 1)))

\* itertools.groupby(xs) as the list of <<key, len(list(group))>>
RECURSIVE GroupLen(_, _)
GroupLen(xs, key) ==
    IF Len(xs) > 0 /\ Head(xs) = key THEN 1 + GroupLen(Tail(xs), key) ELSE 0

RECURSIVE GroupBy(_)
GroupBy(xs) ==
    IF Len(xs) = 0 THEN <<>>
    ELSE LET n == GroupLen(xs, Head(xs))
         IN  <<<<Head(xs), n>>>> \o GroupBy(SubSeq(xs, n + 1, Len(xs)))

\* { k: v for (k, v) in pairs }: a later pair replaces an earlier one
DictOf(pairs) ==
    [k \in {pairs[i][1] : i \in 1..Len(pairs)} |->
        pairs[CHOOSE i \in 1..Len(pairs) :
                  /\ pairs[i][1] = k
                  /\ \A j \in (i + 1)..Len(pairs) : pairs[j][1] # k][2]]

\* Scene.speeches, as a list
Scene_speeches(scene) == SelectSeq(scene.events, LAMBDA e : e.type = "speech")

Scene_speaker_counts(scene) ==
    LET sp == Scene_speeches(scene)
        speakers == Sort([i \in 1..Len(sp) |-> sp[i].speaker])
    IN  DictOf(GroupBy(speakers))

Act_speaker_counts(act) ==
    reduce_add_dicts([j \in 1..Len(act.scenes) |-> Scene_speaker_counts(act.scenes[j])])

\* the list comprehension raises what the first failing Act raises
Play_speaker_counts(as) ==
    LET rs == [i \in 1..Len(as) |-> Act_speaker_counts(as[i])]
        failed == {i \in 1..Len(as) : rs[i].raised # "none"}
    IN  IF failed # {}
        THEN Raised(rs[CHOOSE i \in failed : \A j \in failed : i <= j].raised, EmptyDict)
        ELSE reduce_add_dicts([i \in 1..Len(as) |-> rs[i].obj])

\* the orders in which "for k in sc" can iterate the keys of a dict: the
\* keys come from a set (add_dicts), so the order is any of them
KeyLists(keys) ==
    {ks \in [1..Cardinality(keys) -> keys] :
        \A i, j \in 1..Cardinality(keys) : i # j => ks[i] # ks[j]}

\* (count, name) < (count, name) as Python compares tuples
pair_lt(p, q) ==
    IF p[1] # q[1] THEN p[1] < q[1]
    ELSE IF p[2] # q[2] THEN StrLess(p[2], q[2])
    ELSE FALSE

\* sorted(pairs, reverse=True)
RECURSIVE InsertDescending(_, _)
InsertDescending(x, sorted) ==
    IF Len(sorted) = 0 THEN <<x>>
    ELSE IF pair_lt(Head(sorted), x) THEN <<x>> \o sorted
    ELSE <<Head(sorted)>> \o InsertDescending(x, Tail(sorted))

RECURSIVE SortedReverse(_)
SortedReverse(pairs) ==
    IF Len(pairs) = 0 THEN <<>>
    ELSE InsertDescending(Head(pairs), SortedReverse(Tail(pairs)))

\* what cast() returns when the dict sc is iterated in the order ks
cast_in_order(sc, ks) ==
    LET counted == SortedReverse([i \in 1..Len(ks) |-> <<sc[ks[i]], ks[i]>>])
    IN  [i \in 1..Len(counted) |-> counted[i][2]]

\* Play.cast: the set of its possible outcomes, one for each iteration order
\* of the dict: what speaker_counts raises, or the names by descending
\* (count, name)
Play_cast(as) ==
    LET r == Play_speaker_counts(as)
    IN  IF r.raised # "none" THEN {Raised(r.raised, <<>>)}
        ELSE {Returned(cast_in_order(r.obj, ks)) : ks \in KeyLists(DOMAIN r.obj)}

(***************************************************************************)
(* directions.  A generator is modelled by the list of what it yields.    *)
(***************************************************************************)
Speech_directions(speech) ==
    SelectSeq(speech.lines, LAMBDA line : line.type = "direction")

RECURSIVE Chain(_)
Chain(lists) ==
    IF Len(lists) = 0 THEN <<>> ELSE Head(lists) \o Chain(Tail(lists))

\* Scene.directions that yields the top-level Directions only
Scene_directions_toplevel(scene) ==
    SelectSeq(scene.events, LAMBDA event : event.type = "direction")

Scene_directions(scene) ==
    Chain([i \in 1..Len(scene.events) |->
              IF scene.events[i].type = "direction"
              THEN <<scene.events[i]>>
              ELSE Speech_directions(scene.events[i])])

(***************************************************************************)
(* Speech.__lt__: comparison of the tuples (act_no, scene_no, line_no,    *)
(* speaker), decided at the first position where they differ.              *)
(***************************************************************************)
\* the comparison that leaves scene_no out of the tuples
Speech_lt_without_scene_no(self, other) ==
    IF self.act_no # other.act_no THEN self.act_no < other.act_no
    ELSE IF self.line_no # other.line_no THEN self.line_no < other.line_no
    ELSE IF self.speaker # other.speaker THEN StrLess(self.speaker, other.speaker)
    ELSE FALSE

Speech_lt(self, other) ==
    IF self.act_no # other.act_no THEN self.act_no < other.act_no
    ELSE IF self.scene_no # other.scene_no THEN self.scene_no < other.scene_no
    ELSE IF self.line_no # other.line_no THEN self.line_no < other.line_no
    ELSE IF self.speaker # other.speaker THEN StrLess(self.speaker, other.speaker)
    ELSE FALSE

(***************************************************************************)
(* serialize.  A dict is a record; a list of dicts is a sequence.         *)
(***************************************************************************)
\* the constructor arguments of the Play
PlayTitle == "Hamlet"
PlayUrl == "hamlet/index.html"

Direction_serialize(self) ==
    [type |-> "direction", direction |-> self.direction]

Speech_serialize(self) ==
    [type |-> "speech",
     speaker |-> self.speaker,
     lines |-> [i \in 1..Len(self.lines) |->
                   IF self.lines[i].type = "str"
                   THEN [type |-> "string", value |-> self.lines[i].value]
                   ELSE Direction_serialize(self.lines[i])],
     act_no |-> self.act_no,
     scene_no |-> self.scene_no,
     line_no |-> self.line_no]

\* the module-level serialize(value)
serialize(value) ==
    IF value.type = "str" THEN [type |-> "string", value |-> value.value]
    ELSE IF value.type = "direction" THEN Direction_serialize(value)
    ELSE Speech_serialize(value)

Scene_serialize(self) ==
    [type |-> "scene",
     title |-> self.title,
     act_no |-> self.act_no,
     scene_no |-> self.scene_no,
     events |-> [i \in 1..Len(self.events) |-> serialize(self.events[i])]]

Act_serialize(self) ==
    [type |-> "act",
     scenes |-> [j \in 1..Len(self.scenes) |-> Scene_serialize(self.scenes[j])]]

Play_serialize(as) ==
    [type |-> "play",
     title |-> PlayTitle,
     url |-> PlayUrl,
     acts |-> [i \in 1..Len(as) |-> Act_serialize(as[i])]]

(***************************************************************************)
(* parse_play.  A tag is [name, text, attrs]: the element's kind, its     *)
(* text and its attribute dict.  event_stream yields only a, i and h3     *)
(* elements, ordered by source position; the fetch and the markup          *)
(* indexing are outside the model, so the stream's content is arbitrary.  *)
(***************************************************************************)
\* dict.get(key): None when the key is absent
DictGet(d, key) == IF key \in DOMAIN d THEN Some(d[key]) ELSE None

\* The outcome [raised, acts, new_speaker, heap] of an iteration that called
\* an operation with outcome r, allocated so many Directions and then set
\* new_speaker to spk; a raise skips the rest of the iteration.
Step(r, speaker, spk, ids, allocated) ==
    [raised |-> r.raised, acts |-> r.obj,
     new_speaker |-> IF r.raised = "none" THEN spk ELSE speaker,
     heap |-> IF r.raised = "none" THEN ids + allocated ELSE ids]

\* the branch that does not clear new_speaker after add_speech
line_anchor_keeps_speaker(as, speaker, ids, line_no, content) ==
    IF speaker # None
    THEN Step(Play_add_speech(as, speaker[1], line_no, content), speaker, speaker, ids, 0)
    ELSE Step(Play_add_line(as, content, line_no), speaker, speaker, ids, 0)

\* the branch of the loop for an anchor whose name matches speech_pattern
line_anchor(as, speaker, ids, line_no, content) ==
    IF speaker # None
    THEN Step(Play_add_speech(as, speaker[1], line_no, content), speaker, None, ids, 0)
    ELSE Step(Play_add_line(as, content, line_no), speaker, speaker, ids, 0)

\* the branch of the loop for an anchor that takes a nameless anchor for a
\* speaker anchor
on_anchor_nameless_speaker(tag, as, speaker, ids) ==
    LET content == Strip(tag.text)
        tag_name == DictGet(tag.attrs, "name")
        m == IF tag_name # None THEN speech_pattern_match(tag_name[1]) ELSE None
    IN  IF m # None
        THEN line_anchor(as, speaker, ids, ParseInt(m[1][3]), content)
        ELSE Step(Returned(as), speaker, Some(content), ids, 0)

\* the branch of the loop for an anchor in which a pending speaker is not
\* replaced by the next speaker anchor
on_anchor_first_speaker_wins(tag, as, speaker, ids) ==
    LET content == Strip(tag.text)
        tag_name == DictGet(tag.attrs, "name")
    IN  IF tag_name # None THEN
            LET m == speech_pattern_match(tag_name[1])
            IN  IF m # None
                THEN line_anchor(as, speaker, ids, ParseInt(m[1][3]), content)
                ELSE Step(Returned(as), speaker,
                          IF speaker # None THEN speaker ELSE Some(content), ids, 0)
        ELSE Step(Returned(as), speaker, speaker, ids, 0)

\* the branch of the loop for an anchor (tag.name == 'a')
on_anchor(tag, as, speaker, ids) ==
    LET content == Strip(tag.text)
        tag_name == DictGet(tag.attrs, "name")
    IN  IF tag_name # None THEN
            LET m == speech_pattern_match(tag_name[1])
            IN  IF m # None
                THEN line_anchor(as, speaker, ids, ParseInt(m[1][3]), content)
                ELSE Step(Returned(as), speaker, Some(content), ids, 0)
        ELSE Step(Returned(as), speaker, speaker, ids, 0)

\* the loop body in which an ACT header resets new_speaker
loop_body_act_resets_speaker(tag, as, speaker, ids) ==
    LET content == Strip(tag.text)
        Pass == Step(Returned(as), speaker, speaker, ids, 0)
    IN  IF tag.name = "h3" THEN
            IF StartsWith(content, "ACT")
            THEN Step(Play_add_act(as), speaker, None, ids, 0)
            ELSE IF StartsWith(content, "SCENE")
            THEN Step(Play_add_scene(as, content), speaker, speaker, ids, 0)
            ELSE Pass
        ELSE IF tag.name = "i" THEN
            Step(Play_add_direction(as, content, ids + 1), speaker, speaker, ids, 1)
        ELSE IF tag.name = "a" THEN on_anchor(tag, as, speaker, ids)
        ELSE Pass

\* the loop body in which a header that is neither an ACT nor a SCENE header
\* resets new_speaker
loop_body_header_resets_speaker(tag, as, speaker, ids) ==
    LET content == Strip(tag.text)
        Pass == Step(Returned(as), speaker, speaker, ids, 0)
    IN  IF tag.name = "h3" THEN
            IF StartsWith(content, "ACT")
            THEN Step(Play_add_act(as), speaker, speaker, ids, 0)
            ELSE IF StartsWith(content, "SCENE")
            THEN Step(Play_add_scene(as, content), speaker, speaker, ids, 0)
            ELSE Step(Returned(as), speaker, None, ids, 0)
        ELSE IF tag.name = "i" THEN
            Step(Play_add_direction(as, content, ids + 1), speaker, speaker, ids, 1)
        ELSE IF tag.name = "a" THEN on_anchor(tag, as, speaker, ids)
        ELSE Pass

\* One iteration of the loop of parse_play on tag, from the play's acts as,
\* the pending speaker and the heap size: [raised, acts, new_speaker, heap].
loop_body(tag, as, speaker, ids) ==
    LET content == Strip(tag.text)
        Pass == Step(Returned(as), speaker, speaker, ids, 0)
    IN  IF tag.name = "h3" THEN
            IF StartsWith(content, "ACT")
            THEN Step(Play_add_act(as), speaker, speaker, ids, 0)
            ELSE IF StartsWith(content, "SCENE")
            THEN Step(Play_add_scene(as, content), speaker, speaker, ids, 0)
            ELSE Pass
        ELSE IF tag.name = "i" THEN
            Step(Play_add_direction(as, content, ids + 1), speaker, speaker, ids, 1)
        ELSE IF tag.name = "a" THEN on_anchor(tag, as, speaker, ids)
        ELSE Pass

(***************************************************************************)
(* Inputs.                                                                 *)
(***************************************************************************)
H3(text) == [name |-> "h3", text |-> text, attrs |-> <<>>]
Italic(text) == [name |-> "i", text |-> text, attrs |-> <<>>]
Anchor(text, attrs) == [name |-> "a", text |-> text, attrs |-> attrs]

Tags ==
    { H3("ACT"), H3("SCENE I. A room."), H3("SCENE 2"), H3("Dramatis Personae"),
      Italic("Enter Hamlet"), Italic("\f Exit  \n"),
      Anchor("HAMLET", <<>>),
      Anchor("HAMLET", [name |-> "speech1"]),
      Anchor("HORATIO", [name |-> "speech2"]),
      Anchor("To be or not to be", [name |-> "1.1.1"]),
      Anchor("To be", [name |-> "3.1.۵۷x", href |-> "#57"]) }

\* arguments of direct calls
Titles == {"SCENE I. A room.", "SCENE 2"}
Directions == {"Enter Hamlet", "Exit"}
Speakers == {"HAMLET", "HORATIO"}
NumberedLines == {<<"To be or not to be", 1>>, <<"To be", 57>>}

(***************************************************************************)
(* The number of successful append operations that built the play: one    *)
(* per act, scene, top-level Direction and element of a Speech's lines.   *)
(***************************************************************************)
RECURSIVE SumSeq(_)
SumSeq(ns) == IF Len(ns) = 0 THEN 0 ELSE Head(ns) + SumSeq(Tail(ns))

EventAppends(e) == IF e.type = "speech" THEN Len(e.lines) ELSE 1
SceneAppends(scene) ==
    1 + SumSeq([i \in 1..Len(scene.events) |-> EventAppends(scene.events[i])])
ActAppends(act) ==
    1 + SumSeq([j \in 1..Len(act.scenes) |-> SceneAppends(act.scenes[j])])
Appends(as) == SumSeq([i \in 1..Len(as) |-> ActAppends(as[i])])

(***************************************************************************)
(* Specification Spec: one Play, built by direct calls of its add_*       *)
(* methods and by parse_play, whose stream is drawn one event at a time.  *)
(* An exception that nothing catches ends the run.                        *)
(***************************************************************************)
NoSpeech == Speech("", <<>>, 0, 0, 0)

Init ==
    /\ acts = <<>>
    /\ heap = 0
    /\ pc = "idle"
    /\ new_speaker = None
    /\ exc = "none"
    /\ last = [op |-> "Play"]
    /\ events = <<>>
    /\ pos = 0
    /\ speech_a = NoSpeech
    /\ speech_b = NoSpeech
    /\ eq_result = None

\* the effect of a direct call with outcome r (of a Play_add_* operator)
Call(r, allocated, op) ==
    /\ pc = "idle"
    /\ Appends(r.obj) <= MaxAppends
    /\ acts' = r.obj
    /\ heap' = IF r.raised = "none" THEN heap + allocated ELSE heap
    /\ exc' = r.raised
    /\ pc' = IF r.raised = "none" THEN "idle" ELSE "aborted"
    /\ last' = op
    /\ UNCHANGED <<new_speaker, events, pos, speech_a, speech_b, eq_result>>

CallAddAct == Call(Play_add_act(acts), 0, [op |-> "add_act"])

CallAddScene ==
    \E title \in Titles :
        Call(Play_add_scene(acts, title), 0, [op |-> "add_scene", title |-> title])

CallAddDirection ==
    \E d \in Directions :
        Call(Play_add_direction(acts, d, heap + 1), 1,
             [op |-> "add_direction", direction |-> d])

CallAddLine ==
    \E nl \in NumberedLines :
        Call(Play_add_line(acts, nl[1], nl[2]), 0,
             [op |-> "add_line", line |-> nl[1], line_no |-> nl[2]])

CallAddSpeech ==
    \E speaker \in Speakers, nl \in NumberedLines :
        Call(Play_add_speech(acts, speaker, nl[2], nl[1]), 0,
             [op |-> "add_speech", speaker |-> speaker, line_no |-> nl[2],
              first_line |-> nl[1]])

\* parse_play up to the loop: new_speaker = None
ParsePlay ==
    /\ pc = "idle"
    /\ pc' = "parsing"
    /\ new_speaker' = None
    /\ last' = [op |-> "parse_play"]
    /\ UNCHANGED <<acts, heap, exc, events, pos, speech_a, speech_b, eq_result>>

\* the effect of one iteration of the loop on tag
Iterate(tag) ==
    LET r == loop_body(tag, acts, new_speaker, heap)
    IN  /\ acts' = r.acts
        /\ heap' = r.heap
        /\ new_speaker' = r.new_speaker
        /\ exc' = r.raised
        /\ pc' = IF r.raised = "none" THEN "parsing" ELSE "aborted"
        /\ last' = [op |-> "event", tag |-> tag]

ParseEvent ==
    /\ pc = "parsing"
    /\ \E tag \in Tags :
           /\ Appends(loop_body(tag, acts, new_speaker, heap).acts) <= MaxAppends
           /\ Iterate(tag)
    /\ UNCHANGED <<events, pos, speech_a, speech_b, eq_result>>

\* the stream is exhausted: parse_play returns and its local is gone
ParseReturn ==
    /\ pc = "parsing"
    /\ pc' = "idle"
    /\ new_speaker' = None
    /\ last' = [op |-> "return"]
    /\ UNCHANGED <<acts, heap, exc, events, pos, speech_a, speech_b, eq_result>>

Next ==
    \/ CallAddAct
    \/ CallAddScene
    \/ CallAddDirection
    \/ CallAddLine
    \/ CallAddSpeech
    \/ ParsePlay
    \/ ParseEvent
    \/ ParseReturn

Spec == Init /\ [][Next]_vars

(***************************************************************************)
(* Specification SpecStream: one call of parse_play on a new Play, whose  *)
(* event stream is fixed when the loop starts.                            *)
(***************************************************************************)
StreamTags ==
    { H3("ACT"), H3("SCENE I. A room."), H3("Dramatis Personae"),
      Italic("Enter Hamlet"),
      Anchor("HAMLET", <<>>),
      Anchor("HAMLET", [name |-> "speech1"]),
      Anchor("HORATIO", [name |-> "speech2"]),
      Anchor("Unknown", [name |-> "speech3"]),
      Anchor("To be or not to be", [name |-> "1.1.1"]) }

Streams == UNION {[1..n -> StreamTags] : n \in 0..MaxStream}

InitStream ==
    /\ acts = <<>>
    /\ heap = 0
    /\ pc = "parsing"
    /\ new_speaker = None
    /\ exc = "none"
    /\ last = [op |-> "parse_play"]
    /\ events \in Streams
    /\ pos = 0
    /\ speech_a = NoSpeech
    /\ speech_b = NoSpeech
    /\ eq_result = None

StreamEvent ==
    /\ pc = "parsing"
    /\ pos < Len(events)
    /\ Iterate(events[pos + 1])
    /\ pos' = pos + 1
    /\ UNCHANGED <<events, speech_a, speech_b, eq_result>>

StreamReturn ==
    /\ pc = "parsing"
    /\ pos = Len(events)
    /\ pc' = "idle"
    /\ new_speaker' = None
    /\ last' = [op |-> "return"]
    /\ UNCHANGED <<acts, heap, exc, events, pos, speech_a, speech_b, eq_result>>

NextStream ==
    \/ StreamEvent
    \/ StreamReturn

SpecStream == InitStream /\ [][NextStream]_vars

(***************************************************************************)
(* Specification SpecEq: one evaluation of speech_a == speech_b.  The     *)
(* left operand is built as the test builds its Speeches, with the        *)
(* default numbers; the right operand is any Speech of the bounded set, a *)
(* str or a Direction.  DirExit1 and DirExit2 are two Direction objects   *)
(* with the same text.                                                     *)
(***************************************************************************)
DirExit1 == Direction("Exit", 1)
DirExit2 == Direction("Exit", 2)

CmpElements ==
    { Line("Hi, my name is"), Line("John"), Line("Hi, my name is John"), Line(""),
      DirExit1, DirExit2 }

CmpLines == UNION {[1..n -> CmpElements] : n \in 0..MaxCmpLines}

CmpNumbers == {<<1, 1, 1>>, <<2, 1, 1>>, <<1, 2, 1>>, <<1, 1, 2>>}

CmpLeft == {Speech("John", ls, 1, 1, 1) : ls \in CmpLines}

CmpRight ==
    {Speech(sp, ls, n[1], n[2], n[3]) :
        sp \in {"John", "Bill"}, ls \in CmpLines, n \in CmpNumbers}
    \cup {Line("John"), DirExit1}

InitEq ==
    /\ acts = <<>>
    /\ heap = 2
    /\ pc = "idle"
    /\ new_speaker = None
    /\ exc = "none"
    /\ last = [op |-> "Speech"]
    /\ events = <<>>
    /\ pos = 0
    /\ speech_a \in CmpLeft
    /\ speech_b \in CmpRight
    /\ eq_result = None

Compare ==
    /\ eq_result = None
    /\ eq_result' = Some(Speech_eq(speech_a, speech_b))
    /\ last' = [op |-> "__eq__"]
    /\ UNCHANGED <<acts, heap, pc, new_speaker, exc, events, pos, speech_a, speech_b>>

NextEq == Compare

SpecEq == InitEq /\ [][NextEq]_vars

(***************************************************************************)
(* Specification SpecLt: one evaluation of speech_a < speech_b and one    *)
(* sorted([speech_a, speech_b]), over Speeches whose numbers are positive *)
(* integers up to MaxCmpNo.                                                *)
(***************************************************************************)
LtSpeakers == {"HAM", "HAMLET", "HORATIO"}

LtSpeeches ==
    {Speech(sp, <<Line("To be")>>, a, s, l) :
        sp \in LtSpeakers, a \in 1..MaxCmpNo, s \in 1..MaxCmpNo, l \in 1..MaxCmpNo}

\* sorted(speeches): a stable sort that compares with Speech.__lt__ only
RECURSIVE InsertSpeech(_, _)
InsertSpeech(x, sorted) ==
    IF Len(sorted) = 0 THEN <<x>>
    ELSE IF Speech_lt(x, Head(sorted)) THEN <<x>> \o sorted
    ELSE <<Head(sorted)>> \o InsertSpeech(x, Tail(sorted))

RECURSIVE sorted_speeches(_)
sorted_speeches(speeches) ==
    IF Len(speeches) = 0 THEN <<>>
    ELSE InsertSpeech(LastOf(speeches),
                      sorted_speeches(SubSeq(speeches, 1, Len(speeches) - 1)))

InitLt ==
    /\ acts = <<>>
    /\ heap = 0
    /\ pc = "idle"
    /\ new_speaker = None
    /\ exc = "none"
    /\ last = [op |-> "Speech"]
    /\ events = <<>>
    /\ pos = 0
    /\ speech_a \in LtSpeeches
    /\ speech_b \in LtSpeeches
    /\ eq_result = None

CompareLt ==
    /\ eq_result = None
    /\ eq_result' = Some(Speech_lt(speech_a, speech_b))
    /\ last' = [op |-> "__lt__"]
    /\ UNCHANGED <<acts, heap, pc, new_speaker, exc, events, pos, speech_a, speech_b>>

SortSpeeches ==
    /\ last.op # "sorted"
    /\ last' = [op |-> "sorted", value |-> sorted_speeches(<<speech_a, speech_b>>)]
    /\ UNCHANGED <<acts, heap, pc, new_speaker, exc, events, pos, speech_a, speech_b,
                   eq_result>>

NextLt == CompareLt \/ SortSpeeches

SpecLt == InitLt /\ [][NextLt]_vars

(***************************************************************************)
(* Vocabulary of the properties.                                           *)
(***************************************************************************)
HasScene(as) == Len(as) > 0 /\ Len(as[Len(as)].scenes) > 0

\* the insertion point: the last scene of the last act
CurScene(as) == as[Len(as)].scenes[Len(as[Len(as)].scenes)]

\* as2 is as with its last scene replaced by a scene that differs in events only
OnlyCurSceneEvents(as, as2) ==
    /\ HasScene(as)
    /\ as2 = [as EXCEPT ![Len(as)].scenes[Len(as[Len(as)].scenes)].events =
                  CurScene(as2).events]

IsLineAnchor(tag) ==
    /\ tag.name = "a"
    /\ "name" \in DOMAIN tag.attrs
    /\ speech_pattern_match(tag.attrs["name"]) # None

\* the third integer of a line anchor's name
AnchorLineNo(tag) == ParseInt(speech_pattern_match(tag.attrs["name"])[1][3])

\* op is a line-append: add_line called directly, or a line anchor met by the
\* loop while no pending speaker is set
IsLineAppend(op, speaker) ==
    \/ op.op = "add_line"
    \/ op.op = "event" /\ IsLineAnchor(op.tag) /\ speaker = None

LineText(op) == IF op.op = "add_line" THEN op.line ELSE Strip(op.tag.text)
LineNo(op) == IF op.op = "add_line" THEN op.line_no ELSE AnchorLineNo(op.tag)

\* op is a direction-append: add_direction called directly, or an italic
IsDirectionAppend(op) ==
    \/ op.op = "add_direction"
    \/ op.op = "event" /\ op.tag.name = "i"

DirectionText(op) ==
    IF op.op = "add_direction" THEN op.direction ELSE Strip(op.tag.text)

IsHeader(op, prefix) ==
    /\ op.op = "event"
    /\ op.tag.name = "h3"
    /\ StartsWith(Strip(op.tag.text), prefix)

\* what a line-append step on an empty current scene does
C1_EmptySceneStep ==
    (/\ HasScene(acts)
     /\ Len(CurScene(acts).events) = 0
     /\ IsLineAppend(last', new_speaker))
    => (/\ exc' = "ValueError"
        /\ pc' = "aborted"
        /\ acts' = acts
        /\ Len(CurScene(acts').events) = 0)

(***************************************************************************)
(* C1.  A line-append on a scene whose event list is empty (add_line      *)
(* called directly, or a line anchor processed while no pending speaker   *)
(* is set) raises the error of Scene.add_line, a ValueError, which the     *)
(* spec calls StructuralParseError; the scene's event list is still empty *)
(* and nothing catches the error: the run is aborted, inside parse_play   *)
(* too.                                                                    *)
(***************************************************************************)
C1_LineAppendToEmptySceneRaises == [][C1_EmptySceneStep]_vars

\* a line anchor has aborted parse_play on an empty scene
C1_Witness ==
    /\ exc = "ValueError"
    /\ pc = "aborted"
    /\ last.op = "event"
    /\ IsLineAnchor(last.tag)
    /\ HasScene(acts)
    /\ Len(CurScene(acts).events) = 0

\* what a direction-append step on the current scene does
C2_DirectionStep ==
    (HasScene(acts) /\ IsDirectionAppend(last'))
    => LET before == CurScene(acts).events
           after == CurScene(acts').events
           n == Len(before)
           d == DirectionText(last')
       IN  /\ exc' = "none"
           /\ OnlyCurSceneEvents(acts, acts')
           /\ IF n = 0 \/ before[n].type = "direction"
              THEN /\ Len(after) = n + 1
                   /\ SubSeq(after, 1, n) = before
                   /\ after[n + 1].type = "direction"
                   /\ after[n + 1].direction = d
              ELSE /\ Len(after) = n
                   /\ SubSeq(after, 1, n - 1) = SubSeq(before, 1, n - 1)
                   /\ after[n].type = "speech"
                   /\ Len(after[n].lines) = Len(before[n].lines) + 1
                   /\ SubSeq(after[n].lines, 1, Len(before[n].lines)) = before[n].lines
                   /\ LastOf(after[n].lines).type = "direction"
                   /\ LastOf(after[n].lines).direction = d
                   /\ [after[n] EXCEPT !.lines = before[n].lines] = before[n]

(***************************************************************************)
(* C2.  Direction-append rule: on a scene with no events, or whose last   *)
(* event is a Direction, add_direction(d) appends a new top-level         *)
(* Direction(d); on a scene whose last event is a Speech it leaves the    *)
(* top-level events as many as they were and appends Direction(d) as the  *)
(* last element of that Speech's lines.                                    *)
(***************************************************************************)
C2_DirectionAppendRule == [][C2_DirectionStep]_vars

\* direction "Enter Hamlet", line "To be", direction "Exit": one Speech with
\* lines ["To be", Direction("Exit")]
C2_Witness ==
    /\ HasScene(acts)
    /\ IsDirectionAppend(last)
    /\ LET es == CurScene(acts).events
       IN  /\ Len(es) = 2
           /\ es[1].type = "direction" /\ es[1].direction = "Enter Hamlet"
           /\ es[2].type = "speech"
           /\ Len(es[2].lines) = 2
           /\ es[2].lines[1] = Line("To be")
           /\ es[2].lines[2].type = "direction"
           /\ es[2].lines[2].direction = "Exit"

\* what a line-append step on a current scene that has events does
C3_LineStep ==
    (/\ HasScene(acts)
     /\ Len(CurScene(acts).events) > 0
     /\ IsLineAppend(last', new_speaker))
    => LET scene == CurScene(acts)
           before == scene.events
           after == CurScene(acts').events
           n == Len(before)
           line == Line(LineText(last'))
       IN  /\ exc' = "none"
           /\ OnlyCurSceneEvents(acts, acts')
           /\ IF before[n].type = "speech"
              THEN after = [before EXCEPT ![n].lines = Append(@, line)]
              ELSE after = Append(before,
                                  [type |-> "speech", speaker |-> "Unknown",
                                   lines |-> <<line>>, act_no |-> scene.act_no,
                                   scene_no |-> scene.scene_no,
                                   line_no |-> LineNo(last')])

(***************************************************************************)
(* C3.  Line-append on a scene that has events: if the last event is a    *)
(* Speech the line becomes the last of that Speech's lines and no event   *)
(* is created; if it is a Direction, exactly one Speech is appended, with *)
(* speaker "Unknown", lines [line], the scene's act and scene numbers and *)
(* the given line number.                                                  *)
(***************************************************************************)
C3_LineAppendRule == [][C3_LineStep]_vars

\* a line after a Direction has opened an "Unknown" Speech numbered 57
C3_Witness ==
    /\ HasScene(acts)
    /\ IsLineAppend(last, None)
    /\ exc = "none"
    /\ LET es == CurScene(acts).events
       IN  /\ Len(es) >= 2
           /\ es[Len(es) - 1].type = "direction"
           /\ LastOf(es).type = "speech"
           /\ LastOf(es).speaker = "Unknown"
           /\ LastOf(es).line_no = 57

\* what a line anchor does when a current scene exists
C4_LineAnchorStep ==
    (/\ HasScene(acts)
     /\ last'.op = "event"
     /\ IsLineAnchor(last'.tag))
    => LET before == CurScene(acts).events
           after == CurScene(acts').events
           n == Len(before)
           text == Strip(last'.tag.text)
       IN  IF new_speaker # None
           THEN /\ exc' = "none"
                /\ OnlyCurSceneEvents(acts, acts')
                /\ Len(after) = n + 1
                /\ SubSeq(after, 1, n) = before
                /\ after[n + 1].type = "speech"
                /\ after[n + 1].speaker = new_speaker[1]
                /\ after[n + 1].line_no = AnchorLineNo(last'.tag)
                /\ after[n + 1].lines = <<Line(text)>>
                /\ new_speaker' = None
           ELSE /\ new_speaker' = None
                /\ Len(after) <= n + 1
                /\ Len(after) = n + 1 => after[n + 1].speaker = "Unknown"
                /\ exc' = "none" =>
                       acts' = Play_add_line(acts, text, AnchorLineNo(last'.tag)).obj

(***************************************************************************)
(* C4.  Parser rule 5, for a line anchor processed while a current scene  *)
(* exists: with a pending speaker set, exactly one Speech is appended to  *)
(* the current scene, with that speaker, the third integer of the name as *)
(* line_no and the anchor's text as its only line, and the pending        *)
(* speaker becomes unset; with none set, no Speech with a named speaker   *)
(* is opened (the text goes through the line-append rule) and none is set *)
(* afterwards.  So a pending speaker is consumed by at most one anchor.   *)
(***************************************************************************)
C4_PendingSpeakerRule == [][C4_LineAnchorStep]_vars

\* a second line anchor after a speaker anchor: the first one opened the
\* speaker's Speech, the second one only added a line to it
C4_Witness ==
    /\ HasScene(acts)
    /\ last.op = "event"
    /\ IsLineAnchor(last.tag)
    /\ exc = "none"
    /\ new_speaker = None
    /\ LET es == CurScene(acts).events
       IN  /\ Len(es) = 1
           /\ es[1].type = "speech"
           /\ es[1].speaker = "HORATIO"
           /\ es[1].line_no = 57
           /\ es[1].lines = <<Line("To be"), Line("To be or not to be")>>

\* the event sequence of the scenario
Scenario ==
    << H3("ACT"), H3("SCENE I. A room."), Anchor("HAMLET", <<>>),
       Anchor("To be or not to be", [name |-> "1.1.1"]) >>

\* the scenario with a speaker anchor: its name is present and is no line id
ScenarioNamed ==
    << H3("ACT"), H3("SCENE I. A room."), Anchor("HAMLET", [name |-> "speech1"]),
       Anchor("To be or not to be", [name |-> "1.1.1"]) >>

ParseOver == pc \in {"idle", "aborted"}

OneActOneScene == Len(acts) = 1 /\ Len(acts[1].scenes) = 1

OneSpeechOfHamlet ==
    LET es == acts[1].scenes[1].events
    IN  /\ Len(es) = 1
        /\ es[1].type = "speech"
        /\ es[1].speaker = "HAMLET"
        /\ es[1].line_no = 1
        /\ es[1].lines = <<Line("To be or not to be")>>

(***************************************************************************)
(* C5.  End-to-end scenario.  As stated: parsing header("ACT"),           *)
(* header("SCENE I. A room."), anchor(name=None, text="HAMLET"),          *)
(* anchor(name="1.1.1", text="To be or not to be") into an empty Play     *)
(* ends without error with 1 Act, 1 Scene titled "A room." and 1 Speech   *)
(* of HAMLET with line_no 1 and lines ["To be or not to be"].             *)
(***************************************************************************)
C5_ScenarioAsStated ==
    (events = Scenario /\ ParseOver)
    => /\ pc = "idle"
       /\ exc = "none"
       /\ OneActOneScene
       /\ acts[1].scenes[1].title = "A room."
       /\ OneSpeechOfHamlet

(***************************************************************************)
(* C5, amended.  The nameless anchor is ignored, so the line anchor meets *)
(* an empty scene with no pending speaker: the parse is aborted by the    *)
(* line-append error at the fourth event, with 1 Act and 1 Scene without  *)
(* events.  With a speaker anchor whose name is present and is no line id *)
(* in its place, the parse ends without error with 1 Act, 1 Scene and 1   *)
(* Speech of HAMLET with line_no 1 and lines ["To be or not to be"].      *)
(***************************************************************************)
C5_Scenario ==
    /\ (events = Scenario /\ ParseOver)
       => /\ pc = "aborted"
          /\ exc = "ValueError"
          /\ pos = 4
          /\ OneActOneScene
          /\ acts[1].scenes[1].events = <<>>
    /\ (events = ScenarioNamed /\ ParseOver)
       => /\ pc = "idle"
          /\ exc = "none"
          /\ OneActOneScene
          /\ OneSpeechOfHamlet

\* the scenario with the speaker anchor has been parsed to its end
C5_Witness ==
    /\ events = ScenarioNamed
    /\ pc = "idle"
    /\ pos = 4
    /\ OneActOneScene
    /\ OneSpeechOfHamlet

\* the i-th Act has act_no = i
ActsNumbered == \A i \in 1..Len(acts) : acts[i].act_no = i

\* the greatest act number of the play, 0 if it has no act
MaxActNo(as) ==
    IF Len(as) = 0 THEN 0
    ELSE CHOOSE m \in {as[i].act_no : i \in 1..Len(as)} :
             \A i \in 1..Len(as) : as[i].act_no <= m

\* what a header whose text starts with "ACT" does
C6_ActHeaderStep ==
    IsHeader(last', "ACT")
    => /\ exc' = "none"
       /\ Len(acts') = Len(acts) + 1
       /\ SubSeq(acts', 1, Len(acts)) = acts
       /\ LastOf(acts').act_no = MaxActNo(acts) + 1
       /\ LastOf(acts').scenes = <<>>

(***************************************************************************)
(* C6.  Act numbering: in every reachable state the i-th Act of the play  *)
(* has act_no = i, and a header whose text starts with "ACT" appends      *)
(* exactly one Act, numbered one more than the greatest act number so far *)
(* (1 if there is none).                                                   *)
(***************************************************************************)
C6_ActNumbering == []ActsNumbered /\ [][C6_ActHeaderStep]_vars

\* an ACT header has appended the third act
C6_Witness ==
    /\ IsHeader(last, "ACT")
    /\ Len(acts) = 3
    /\ acts[3].act_no = 3

\* the j-th Scene of an Act has scene_no = j and the act_no of the Act
ScenesNumbered ==
    \A i \in 1..Len(acts) : \A j \in 1..Len(acts[i].scenes) :
        /\ acts[i].scenes[j].scene_no = j
        /\ acts[i].scenes[j].act_no = acts[i].act_no

\* what a SCENE header does when the play has an act
C7_SceneHeaderStep ==
    (IsHeader(last', "SCENE") /\ ~IsHeader(last', "ACT") /\ Len(acts) > 0)
    => LET k == Len(acts)
       IN  /\ exc' = "none"
           /\ Len(acts') = k
           /\ SubSeq(acts', 1, k - 1) = SubSeq(acts, 1, k - 1)
           /\ acts'[k].act_no = acts[k].act_no
           /\ Len(acts'[k].scenes) = Len(acts[k].scenes) + 1
           /\ SubSeq(acts'[k].scenes, 1, Len(acts[k].scenes)) = acts[k].scenes
           /\ LastOf(acts'[k].scenes).events = <<>>

(***************************************************************************)
(* C7.  Scene numbering: in every reachable state the j-th Scene of every *)
(* Act has scene_no = j and the act_no of its Act, so the numbering       *)
(* restarts at 1 in each Act; a SCENE header appends to the last Act only.*)
(***************************************************************************)
C7_SceneNumbering == []ScenesNumbered /\ [][C7_SceneHeaderStep]_vars

\* a SCENE header has opened scene 1 of act 2 after act 1 got two scenes
C7_Witness ==
    /\ IsHeader(last, "SCENE")
    /\ Len(acts) = 2
    /\ Len(acts[1].scenes) = 2
    /\ acts[1].scenes[2].scene_no = 2
    /\ Len(acts[2].scenes) = 1
    /\ acts[2].scenes[1].scene_no = 1
    /\ acts[2].scenes[1].act_no = 2

\* the last step created a Scene
SceneCreated ==
    /\ exc = "none"
    /\ \/ last.op = "add_scene"
       \/ IsHeader(last, "SCENE") /\ ~IsHeader(last, "ACT")

\* the title that Scene was created with
GivenTitle == IF last.op = "add_scene" THEN last.title ELSE Strip(last.tag.text)

\* t is "SCENE ", roman numerals up to position i - 1, "." at i, and a rest
RomanMarkerEndsAt(t, i) ==
    /\ SubSeq(t, 1, 6) = "SCENE "
    /\ i >= 8
    /\ i <= Len(t)
    /\ \A k \in 7..(i - 1) : CharAt(t, k) \in {"I", "V", "X"}
    /\ CharAt(t, i) = "."

(***************************************************************************)
(* C8.  Scene title parsing: a title "SCENE <roman-numerals>.<rest>",     *)
(* roman numerals over I, V, X, gives a Scene whose title is <rest> with  *)
(* the surrounding whitespace trimmed; a title of another form is stored  *)
(* unchanged.                                                              *)
(***************************************************************************)
C8_SceneTitleParsing ==
    SceneCreated
    => LET t == GivenTitle
           title == CurScene(acts).title
       IN  /\ \A i \in 1..Len(t) :
                  RomanMarkerEndsAt(t, i) => title = Strip(SubSeq(t, i + 1, Len(t)))
           /\ (~\E i \in 1..Len(t) : RomanMarkerEndsAt(t, i)) => title = t

\* the structural equality of a Speech a and a value b
SameElement(x, y) ==
    /\ x.type = y.type
    /\ IF x.type = "str" THEN x.value = y.value ELSE x.direction = y.direction

StructurallyEqual(a, b) ==
    /\ b.type = "speech"
    /\ a.speaker = b.speaker
    /\ Len(a.lines) = Len(b.lines)
    /\ \A i \in 1..Len(a.lines) : SameElement(a.lines[i], b.lines[i])
    /\ a.act_no = b.act_no
    /\ a.scene_no = b.scene_no
    /\ a.line_no = b.line_no

(***************************************************************************)
(* C9.  Speech equality is structural: two Speeches are equal if and only *)
(* if their speakers, their line sequences (same length, element by       *)
(* element: equal text, or Directions with equal direction), act_no,      *)
(* scene_no and line_no are equal; a Speech is not equal to a non-Speech. *)
(***************************************************************************)
C9_SpeechEqualityStructural ==
    eq_result # None => (eq_result[1] <=> StructurallyEqual(speech_a, speech_b))

\* all scenes of the play, in order
RECURSIVE Flatten(_)
Flatten(seqs) == IF Len(seqs) = 0 THEN <<>> ELSE Head(seqs) \o Flatten(Tail(seqs))

AllScenes(as) == Flatten([i \in 1..Len(as) |-> as[i].scenes])
AllEvents(as) ==
    LET ss == AllScenes(as) IN Flatten([j \in 1..Len(ss) |-> ss[j].events])

\* the number of top-level Speech events of speaker in the play
SpeechCount(as, speaker) ==
    Cardinality({i \in 1..Len(AllEvents(as)) :
                    /\ AllEvents(as)[i].type = "speech"
                    /\ AllEvents(as)[i].speaker = speaker})

PlaySpeakers(as) ==
    {AllEvents(as)[i].speaker :
        i \in {k \in 1..Len(AllEvents(as)) : AllEvents(as)[k].type = "speech"}}

\* the key-union, value-summing merge of a list of dicts
Merge(dicts) ==
    [k \in UNION {DOMAIN dicts[i] : i \in 1..Len(dicts)} |->
        SumSeq([i \in 1..Len(dicts) |-> GetOrZero(dicts[i], k)])]

(***************************************************************************)
(* C10.  Speaker-count merge law: for any play built by append            *)
(* operations, Play.speaker_counts() maps each speaker to the number of   *)
(* top-level Speech events of that speaker in the play, and is the        *)
(* key-union, value-summing merge of Act.speaker_counts() over the acts,  *)
(* each of which is the same merge of Scene.speaker_counts() over its     *)
(* scenes; the merge is commutative and associative.                       *)
(***************************************************************************)
C10_SpeakerCountMergeLaw ==
    LET play == Play_speaker_counts(acts)
        of_act == [i \in 1..Len(acts) |-> Act_speaker_counts(acts[i])]
        of_scene == [j \in 1..Len(AllScenes(acts)) |->
                        Scene_speaker_counts(AllScenes(acts)[j])]
    IN  /\ play.raised = "none"
        /\ \A i \in 1..Len(acts) : of_act[i].raised = "none"
        /\ play.obj = [k \in PlaySpeakers(acts) |-> SpeechCount(acts, k)]
        /\ play.obj = Merge([i \in 1..Len(acts) |-> of_act[i].obj])
        /\ \A i \in 1..Len(acts) :
               of_act[i].obj =
                   Merge([j \in 1..Len(acts[i].scenes) |->
                             Scene_speaker_counts(acts[i].scenes[j])])
        /\ play.obj = Merge(of_scene)
        /\ \A x, y, z \in {of_scene[j] : j \in 1..Len(of_scene)} :
               /\ add_dicts(x, y) = add_dicts(y, x)
               /\ add_dicts(add_dicts(x, y), z) = add_dicts(x, add_dicts(y, z))

\* the serialized record rec holds value under field
Reads(rec, field, value) == field \in DOMAIN rec /\ rec[field] = value

\* the record of a plain line or of a Direction inside a Speech
LineFaithful(rec, line) ==
    IF line.type = "str"
    THEN rec = [type |-> "string", value |-> line.value]
    ELSE Reads(rec, "type", "direction") /\ Reads(rec, "direction", line.direction)

EventFaithful(rec, e) ==
    IF e.type = "direction"
    THEN Reads(rec, "type", "direction") /\ Reads(rec, "direction", e.direction)
    ELSE /\ Reads(rec, "type", "speech")
         /\ Reads(rec, "speaker", e.speaker)
         /\ Reads(rec, "act_no", e.act_no)
         /\ Reads(rec, "scene_no", e.scene_no)
         /\ Reads(rec, "line_no", e.line_no)
         /\ "lines" \in DOMAIN rec
         /\ Len(rec.lines) = Len(e.lines)
         /\ \A k \in 1..Len(e.lines) : LineFaithful(rec.lines[k], e.lines[k])

SceneFaithful(rec, scene) ==
    /\ Reads(rec, "title", scene.title)
    /\ Reads(rec, "act_no", scene.act_no)
    /\ Reads(rec, "scene_no", scene.scene_no)
    /\ "events" \in DOMAIN rec
    /\ Len(rec.events) = Len(scene.events)
    /\ \A k \in 1..Len(scene.events) : EventFaithful(rec.events[k], scene.events[k])

ActFaithful(rec, act) ==
    /\ Reads(rec, "act_no", act.act_no)
    /\ "scenes" \in DOMAIN rec
    /\ Len(rec.scenes) = Len(act.scenes)
    /\ \A j \in 1..Len(act.scenes) : SceneFaithful(rec.scenes[j], act.scenes[j])

(***************************************************************************)
(* C11.  Serialization fidelity: for every entity of the Play (Play, Act, *)
(* Scene, Speech, Direction, plain line), each data-model field of the    *)
(* entity is read back from its serialized record with an equal value,    *)
(* nested entities appear in the same order, and a plain line is the      *)
(* record {type: "string", value: text}.                                   *)
(***************************************************************************)
C11_SerializationFidelity ==
    LET rec == Play_serialize(acts)
    IN  /\ Reads(rec, "title", PlayTitle)
        /\ Reads(rec, "url", PlayUrl)
        /\ "acts" \in DOMAIN rec
        /\ Len(rec.acts) = Len(acts)
        /\ \A i \in 1..Len(acts) : ActFaithful(rec.acts[i], acts[i])

\* the same with the Act's own number left out of what is read back
C11_FidelityBelowActs ==
    LET rec == Play_serialize(acts)
    IN  /\ Reads(rec, "title", PlayTitle)
        /\ Reads(rec, "url", PlayUrl)
        /\ Len(rec.acts) = Len(acts)
        /\ \A i \in 1..Len(acts) :
               /\ Len(rec.acts[i].scenes) = Len(acts[i].scenes)
               /\ \A j \in 1..Len(acts[i].scenes) :
                      SceneFaithful(rec.acts[i].scenes[j], acts[i].scenes[j])

\* what cast() returned lists each speaker of the play once, by descending
\* speech count and, among equal counts, by descending name
CastOrdered(as, cast) ==
    /\ {cast[i] : i \in 1..Len(cast)} = PlaySpeakers(as)
    /\ \A i, j \in 1..Len(cast) : i < j =>
           \/ SpeechCount(as, cast[i]) > SpeechCount(as, cast[j])
           \/ /\ SpeechCount(as, cast[i]) = SpeechCount(as, cast[j])
              /\ StrLess(cast[j], cast[i])

(***************************************************************************)
(* C12.  cast() returns every speaker of the play exactly once, ordered   *)
(* by descending speech count, with speakers of equal count ordered by    *)
(* descending name (lexicographically later names first).                  *)
(***************************************************************************)
C12_CastOrder ==
    \A r \in Play_cast(acts) :
        /\ r.raised = "none"
        /\ CastOrdered(acts, r.obj)

\* the order of what cast() returns, in the states where it returns
C12_CastOrderWhenReturned ==
    /\ \A r \in Play_cast(acts) : r.raised = "none" => CastOrdered(acts, r.obj)
    /\ Cardinality(Play_cast(acts)) = 1

\* the Direction objects of a scene, wherever they are
DirectionsIn(scene) ==
    {scene.events[k] : k \in {n \in 1..Len(scene.events) :
                                  scene.events[n].type = "direction"}}
    \cup UNION {{scene.events[k].lines[l] :
                    l \in {n \in 1..Len(scene.events[k].lines) :
                              scene.events[k].lines[n].type = "direction"}} :
                k \in {n \in 1..Len(scene.events) : scene.events[n].type = "speech"}}

\* the place of Direction d in the scene: <<event index, line index>>, with
\* line index 0 for a top-level Direction
PlaceOf(scene, d) ==
    CHOOSE p \in (1..Len(scene.events)) \X (0..(MaxAppends + 1)) :
        IF p[2] = 0
        THEN scene.events[p[1]] = d
        ELSE /\ scene.events[p[1]].type = "speech"
             /\ p[2] <= Len(scene.events[p[1]].lines)
             /\ scene.events[p[1]].lines[p[2]] = d

Precedes(p, q) == p[1] < q[1] \/ (p[1] = q[1] /\ p[2] < q[2])

\* Scene.directions yields every Direction of the scene once, in document order
DirectionsInDocumentOrder(scene) ==
    LET ds == Scene_directions(scene)
    IN  /\ {ds[i] : i \in 1..Len(ds)} = DirectionsIn(scene)
        /\ Len(ds) = Cardinality(DirectionsIn(scene))
        /\ \A i, j \in 1..Len(ds) :
               i < j => Precedes(PlaceOf(scene, ds[i]), PlaceOf(scene, ds[j]))

\* every Direction allocated by a successful add_direction is yielded by
\* exactly one scene
DirectionsCounted ==
    /\ \A j \in 1..Len(AllScenes(acts)) : DirectionsInDocumentOrder(AllScenes(acts)[j])
    /\ SumSeq([j \in 1..Len(AllScenes(acts)) |->
                  Len(Scene_directions(AllScenes(acts)[j]))]) = heap

\* a successful add_direction makes the current scene yield one more
\* Direction, the new one, after those it yielded before; every other step
\* leaves what each existing scene yields as it was, and a new scene yields
\* nothing
C13_DirectionsStep ==
    LET before == AllScenes(acts)
        after == AllScenes(acts')
        n == Len(before)
    IN  /\ Len(after) >= n
        /\ \A j \in 1..n :
               Scene_directions(after[j]) =
                   IF j = n /\ HasScene(acts) /\ IsDirectionAppend(last') /\ exc' = "none"
                   THEN Append(Scene_directions(before[j]),
                               Direction(DirectionText(last'), heap'))
                   ELSE Scene_directions(before[j])
        /\ \A j \in (n + 1)..Len(after) : Scene_directions(after[j]) = <<>>

(***************************************************************************)
(* C13.  Scene.directions yields, in document order and each exactly      *)
(* once, every Direction of the scene: the top-level Direction events and *)
(* the Directions embedded in the lines of its Speeches; the number       *)
(* yielded equals the number of add_direction calls that succeeded on     *)
(* that scene, and each invocation recomputes the sequence from the       *)
(* current state.                                                          *)
(***************************************************************************)
C13_SceneDirections == []DirectionsCounted /\ [][C13_DirectionsStep]_vars

\* the current scene yields a top-level Direction and then one embedded in a
\* Speech
C13_Witness ==
    /\ HasScene(acts)
    /\ IsDirectionAppend(last)
    /\ LET scene == CurScene(acts)
           ds == Scene_directions(scene)
       IN  /\ Len(ds) = 2
           /\ Len(scene.events) = 2
           /\ scene.events[1] = ds[1]
           /\ scene.events[2].type = "speech"
           /\ LastOf(scene.events[2].lines) = ds[2]

\* the tuple (act_no, scene_no, line_no, speaker) of a Speech
OrderKey(speech) == <<speech.act_no, speech.scene_no, speech.line_no, speech.speaker>>

\* x is lexicographically smaller than y: they agree up to some position,
\* where x has the smaller element (numbers by <, names by code point)
LexLess(x, y) ==
    \E k \in 1..4 :
        /\ \A i \in 1..(k - 1) : x[i] = y[i]
        /\ IF k = 4 THEN StrLess(x[k], y[k]) ELSE x[k] < y[k]

\* the outcome of a < b, and the order of sorted([a, b])
OrderedByKey ==
    /\ last.op = "__lt__" =>
           eq_result = Some(LexLess(OrderKey(speech_a), OrderKey(speech_b)))
    /\ last.op = "sorted" =>
           /\ Len(last.value) = 2
           /\ {last.value[1], last.value[2]} = {speech_a, speech_b}
           /\ ~LexLess(OrderKey(last.value[2]), OrderKey(last.value[1]))

(***************************************************************************)
(* C14.  Speech ordering: for any two Speeches a and b, a < b holds       *)
(* exactly when the tuple (act_no, scene_no, line_no, speaker) of a is    *)
(* lexicographically smaller than that of b, so sorting speeches gives    *)
(* tuple-lexicographic ascending order.                                    *)
(***************************************************************************)
C14_SpeechOrdering == []OrderedByKey

\* a < b was decided by the scene numbers alone, against the line numbers
\* and the speakers
C14_Witness ==
    /\ last.op = "__lt__"
    /\ eq_result = Some(TRUE)
    /\ speech_a.act_no = speech_b.act_no
    /\ speech_a.scene_no < speech_b.scene_no
    /\ speech_a.line_no > speech_b.line_no
    /\ StrLess(speech_b.speaker, speech_a.speaker)

\* a speaker anchor: its name attribute is present and is not act.scene.line
IsSpeakerAnchor(tag) ==
    /\ tag.name = "a"
    /\ "name" \in DOMAIN tag.attrs
    /\ speech_pattern_match(tag.attrs["name"]) = None

\* the speaker anchors among the first n events that no line anchor follows
UnconsumedSpeakerAnchors(evs, n) ==
    {k \in 1..n : /\ IsSpeakerAnchor(evs[k])
                  /\ \A i \in (k + 1)..n : ~IsLineAnchor(evs[i])}

Max(set) == CHOOSE x \in set : \A y \in set : y <= x

\* what the steps of the loop do with speaker anchors
C15_SpeakerAnchorStep ==
    /\ (last'.op = "event" /\ IsSpeakerAnchor(last'.tag))
       => (/\ acts' = acts
           /\ heap' = heap
           /\ exc' = "none"
           /\ new_speaker' = Some(Strip(last'.tag.text)))
    /\ (/\ last'.op = "event"
        /\ IsLineAnchor(last'.tag)
        /\ exc' = "none"
        /\ UnconsumedSpeakerAnchors(events, pos) # {})
       => LET k == Max(UnconsumedSpeakerAnchors(events, pos))
              before == CurScene(acts).events
              after == CurScene(acts').events
          IN  /\ OnlyCurSceneEvents(acts, acts')
              /\ Len(after) = Len(before) + 1
              /\ SubSeq(after, 1, Len(before)) = before
              /\ LastOf(after).type = "speech"
              /\ LastOf(after).speaker = Strip(events[k].text)
              /\ LastOf(after).lines = <<Line(Strip(last'.tag.text))>>
    /\ last'.op = "return" => acts' = acts

(***************************************************************************)
(* C15.  Pending speaker is last-wins and never creates anything by       *)
(* itself: an anchor whose name attribute is present but does not match   *)
(* act.scene.line only replaces the pending speaker with its text and     *)
(* leaves the document model unchanged; when several such anchors occur   *)
(* before the next line anchor, the Speech then opened carries the text   *)
(* of the last one; a pending speaker still set at the end of the event   *)
(* sequence adds no Speech.                                                *)
(***************************************************************************)
C15_PendingSpeakerLastWins == [][C15_SpeakerAnchorStep]_vars

\* two speaker anchors and then a line anchor: the Speech is the second one's
C15_Witness ==
    /\ pos = 5
    /\ exc = "none"
    /\ IsSpeakerAnchor(events[3]) /\ Strip(events[3].text) = "HAMLET"
    /\ IsSpeakerAnchor(events[4]) /\ Strip(events[4].text) = "HORATIO"
    /\ IsLineAnchor(events[5])
    /\ HasScene(acts)
    /\ Len(CurScene(acts).events) = 1
    /\ CurScene(acts).events[1].speaker = "HORATIO"

\* the parse has returned with a pending speaker that no line anchor followed
C15_WitnessDiscarded ==
    /\ last.op = "return"
    /\ pos = Len(events)
    /\ UnconsumedSpeakerAnchors(events, pos) # {}
    /\ HasScene(acts)
    /\ Len(CurScene(acts).events) = 0

\* an event the loop ignores: a header whose text starts with neither "ACT"
\* nor "SCENE", or an anchor without a name attribute
IsIgnored(tag) ==
    \/ /\ tag.name = "h3"
       /\ ~StartsWith(Strip(tag.text), "ACT")
       /\ ~StartsWith(Strip(tag.text), "SCENE")
    \/ /\ tag.name = "a"
       /\ "name" \notin DOMAIN tag.attrs

C16_IgnoredStep ==
    (last'.op = "event" /\ IsIgnored(last'.tag))
    => (/\ acts' = acts
        /\ new_speaker' = new_speaker
        /\ heap' = heap
        /\ exc' = "none"
        /\ pc' = "parsing")

(***************************************************************************)
(* C16.  Ignored events leave the whole state unchanged: processing a     *)
(* header whose text starts with neither "ACT" nor "SCENE", or an anchor  *)
(* without a name attribute, changes neither the document model (acts,    *)
(* scenes, events, lines) nor the pending speaker, in any parser state,   *)
(* and never raises.                                                       *)
(***************************************************************************)
C16_IgnoredEventsChangeNothing == [][C16_IgnoredStep]_vars

\* an ignored header was processed while a speaker was pending in a scene
\* that has events
C16_Witness ==
    /\ last.op = "event"
    /\ IsIgnored(last.tag)
    /\ last.tag.name = "h3"
    /\ pc = "parsing"
    /\ new_speaker = Some("HORATIO")
    /\ HasScene(acts)
    /\ Len(CurScene(acts).events) > 0

\* as2 is as with one new Act, without scenes, after its acts
AppendsAct(as, as2) ==
    /\ Len(as2) = Len(as) + 1
    /\ SubSeq(as2, 1, Len(as)) = as
    /\ LastOf(as2).scenes = <<>>

\* as2 is as with one new Scene, without events, after the scenes of its last act
AppendsScene(as, as2) ==
    /\ Len(as) > 0
    /\ Len(as2) = Len(as)
    /\ Len(LastOf(as2).scenes) = Len(LastOf(as).scenes) + 1
    /\ LastOf(LastOf(as2).scenes).events = <<>>
    /\ as2 = [as EXCEPT ![Len(as)].scenes = Append(@, LastOf(LastOf(as2).scenes))]

\* as2 is as with one new event after the events of its last scene
AppendsEvent(as, as2) ==
    /\ OnlyCurSceneEvents(as, as2)
    /\ CurScene(as2).events = Append(CurScene(as).events, LastOf(CurScene(as2).events))

\* as2 is as with one new line after the lines of the last event of its last scene
AppendsLine(as, as2) ==
    /\ OnlyCurSceneEvents(as, as2)
    /\ LET before == CurScene(as).events
           after == CurScene(as2).events
           n == Len(before)
       IN  /\ n > 0
           /\ before[n].type = "speech"
           /\ Len(after) = n
           /\ after = [before EXCEPT ![n].lines = Append(@, LastOf(after[n].lines))]

C17_TailStep ==
    \/ acts' = acts
    \/ AppendsAct(acts, acts')
    \/ AppendsScene(acts, acts')
    \/ AppendsEvent(acts, acts')
    \/ AppendsLine(acts, acts')

(***************************************************************************)
(* C17.  Append-only, tail-only mutation: every step that changes the     *)
(* document model either appends one new Act, appends one new Scene to    *)
(* the last Act, or changes only the last Scene of the last Act by        *)
(* appending one event or appending one line to its last event; all       *)
(* earlier acts, earlier scenes, earlier events and the lines already     *)
(* present keep their values and positions, so no entity is ever deleted, *)
(* reordered or rewritten.                                                 *)
(***************************************************************************)
C17_AppendOnlyTailOnly == [][C17_TailStep]_vars

\* a Scene was appended to the second Act while the first Act, with its
\* scene and event, stayed as it was
C17_Witness ==
    /\ IsHeader(last, "SCENE")
    /\ Len(acts) = 2
    /\ Len(acts[1].scenes) = 1
    /\ Len(acts[1].scenes[1].events) = 1
    /\ Len(acts[2].scenes) = 1
    /\ acts[2].scenes[1].events = <<>>

\* the events of a scene are top-level Directions and then Speeches, and
\* every Speech has at least one line, the first a plain str
SceneShape(scene) ==
    LET es == scene.events
    IN  /\ \A k \in 1..Len(es) : es[k].type \in {"direction", "speech"}
        /\ \A k \in 2..Len(es) : es[k].type = "direction" => es[k - 1].type = "direction"
        /\ \A k \in 1..Len(es) :
               es[k].type = "speech"
               => /\ Len(es[k].lines) >= 1
                  /\ es[k].lines[1].type = "str"

\* event k of the scene is the first Speech of the scene and the event before
\* it is a Direction
FirstSpeechAfterDirection(scene, k) ==
    /\ k > 1
    /\ scene.events[k - 1].type = "direction"
    /\ \A i \in 1..(k - 1) : scene.events[i].type # "speech"

UnknownSpeeches(scene) ==
    {k \in 1..Len(scene.events) :
        scene.events[k].type = "speech" /\ scene.events[k].speaker = "Unknown"}

(***************************************************************************)
(* C18 as stated.  In every reachable state, each Scene's event list is a *)
(* (possibly empty) run of top-level Directions followed by a (possibly   *)
(* empty) run of Speeches; a top-level Direction never follows a Speech,  *)
(* every Speech has at least one line and its first line is plain text,   *)
(* and a Speech with the sentinel speaker "Unknown" can only be the first *)
(* Speech of its scene, directly after a Direction.                        *)
(***************************************************************************)
C18_SceneShapeAsStated ==
    \A j \in 1..Len(AllScenes(acts)) :
        LET scene == AllScenes(acts)[j]
        IN  /\ SceneShape(scene)
            /\ \A k \in UnknownSpeeches(scene) : FirstSpeechAfterDirection(scene, k)

\* a Speech named "Unknown" that is not the first Speech after a Direction
\* was named by a speaker anchor with that text
SceneShapeInv ==
    \A j \in 1..Len(AllScenes(acts)) :
        LET scene == AllScenes(acts)[j]
        IN  /\ SceneShape(scene)
            /\ \A k \in UnknownSpeeches(scene) :
                   \/ FirstSpeechAfterDirection(scene, k)
                   \/ \E i \in 1..pos : /\ IsSpeakerAnchor(events[i])
                                        /\ Strip(events[i].text) = "Unknown"

\* a line-append that opens a Speech names it "Unknown" and opens it as the
\* first Speech of its scene, directly after a Direction
C18_SentinelStep ==
    (/\ last'.op = "event"
     /\ IsLineAnchor(last'.tag)
     /\ new_speaker = None
     /\ exc' = "none"
     /\ Len(CurScene(acts').events) = Len(CurScene(acts).events) + 1)
    => LET scene == CurScene(acts')
           n == Len(scene.events)
       IN  /\ scene.events[n].speaker = "Unknown"
           /\ FirstSpeechAfterDirection(scene, n)

(***************************************************************************)
(* C18.  In every reachable state, each Scene's event list is a (possibly *)
(* empty) run of top-level Directions followed by a (possibly empty) run  *)
(* of Speeches; a top-level Direction never follows a Speech, and every   *)
(* Speech has at least one line, the first of them plain text.  A Speech  *)
(* opened by the line-append rule has the sentinel speaker "Unknown" and  *)
(* is the first Speech of its scene, directly after a Direction; any      *)
(* other Speech with speaker "Unknown" was named so by a speaker anchor.  *)
(***************************************************************************)
C18_SceneShape == []SceneShapeInv /\ [][C18_SentinelStep]_vars

\* with no speaker anchor in the stream, a line anchor has opened the
\* sentinel Speech directly after a Direction
C18_Witness ==
    /\ HasScene(acts)
    /\ pos = Len(events)
    /\ LET es == CurScene(acts).events
       IN  /\ Len(es) = 2
           /\ es[1].type = "direction"
           /\ es[2].type = "speech" /\ es[2].speaker = "Unknown"
           /\ IsLineAnchor(events[pos])
           /\ ~\E i \in 1..pos : IsSpeakerAnchor(events[i])

\* the event needs a container that the play does not have: an Act for a
\* SCENE header, a Scene in the last Act for an italic or a line anchor
LacksContainer(as, tag) ==
    \/ /\ Len(as) = 0
       /\ \/ tag.name = "h3" /\ ~StartsWith(Strip(tag.text), "ACT")
                             /\ StartsWith(Strip(tag.text), "SCENE")
          \/ tag.name = "i"
          \/ IsLineAnchor(tag)
    \/ /\ Len(as) > 0
       /\ Len(LastOf(as).scenes) = 0
       /\ (tag.name = "i" \/ IsLineAnchor(tag))

C19_MissingContainerStep ==
    (last'.op = "event" /\ LacksContainer(acts, last'.tag))
    => (/\ exc' = "IndexError"
        /\ pc' = "aborted"
        /\ acts' = acts
        /\ heap' = heap)

(***************************************************************************)
(* C19.  Missing-container failure: a SCENE header, italic or line anchor *)
(* processed while the Play has no Act, and an italic or line anchor      *)
(* processed while the last Act has no Scene (including directly after a  *)
(* new ACT header, even when an earlier act has scenes), aborts the parse *)
(* with an error, an IndexError, rather than being ignored or attached to *)
(* an earlier scene, and the failed step leaves the document model        *)
(* unchanged.                                                              *)
(***************************************************************************)
C19_MissingContainerAborts == [][C19_MissingContainerStep]_vars

\* an italic directly after the second ACT header has aborted the parse; the
\* first act's scene is as it was
C19_Witness ==
    /\ exc = "IndexError"
    /\ pc = "aborted"
    /\ last.op = "event"
    /\ last.tag.name = "i"
    /\ Len(acts) = 2
    /\ Len(acts[1].scenes) = 1
    /\ Len(acts[1].scenes[1].events) = 1
    /\ acts[2].scenes = <<>>

\* while the loop runs, the pending speaker is the text of the last speaker
\* anchor that no line anchor has followed, whatever came in between
PendingIsLastUnconsumed ==
    pc = "parsing"
    => new_speaker = IF UnconsumedSpeakerAnchors(events, pos) = {}
                     THEN None
                     ELSE Some(Strip(events[Max(UnconsumedSpeakerAnchors(events, pos))].text))

C20_PersistenceStep ==
    /\ (/\ last'.op = "event"
        /\ ~IsLineAnchor(last'.tag)
        /\ ~IsSpeakerAnchor(last'.tag))
       => new_speaker' = new_speaker
    /\ (/\ last'.op = "event"
        /\ new_speaker # None
        /\ new_speaker' = None)
       => (/\ IsLineAnchor(last'.tag)
           /\ exc' = "none"
           /\ OnlyCurSceneEvents(acts, acts')
           /\ CurScene(acts').events =
                  Append(CurScene(acts).events,
                         Speech(new_speaker[1], <<Line(Strip(last'.tag.text))>>,
                                CurScene(acts).act_no, CurScene(acts).scene_no,
                                AnchorLineNo(last'.tag))))

(***************************************************************************)
(* C20.  Pending-speaker persistence: the pending speaker is cleared only *)
(* by a matching line anchor; ACT headers, SCENE headers, ignored         *)
(* headers, italics and nameless anchors leave it set, so a speaker named *)
(* before an act or scene boundary is attached to the first line anchor   *)
(* of the following scene, and a direction arriving between the speaker   *)
(* anchor and its first line is placed before that Speech (top-level or   *)
(* embedded in the previous Speech), not inside it.                        *)
(***************************************************************************)
C20_PendingSpeakerPersists == []PendingIsLastUnconsumed /\ [][C20_PersistenceStep]_vars

\* speaker anchor, ACT, SCENE, italic, line anchor: the scene holds the
\* Direction and then the speaker's Speech with the line alone
C20_Witness ==
    /\ pos = 5
    /\ exc = "none"
    /\ IsSpeakerAnchor(events[1]) /\ Strip(events[1].text) = "HAMLET"
    /\ events[4].name = "i"
    /\ IsLineAnchor(events[5])
    /\ Len(acts) = 1
    /\ Len(acts[1].scenes) = 1
    /\ LET es == acts[1].scenes[1].events
       IN  /\ Len(es) = 2
           /\ es[1].type = "direction"
           /\ es[2].type = "speech"
           /\ es[2].speaker = "HAMLET"
           /\ es[2].lines = <<Line(Strip(events[5].text))>>

====
